---- MODULE Spec2Model ----
(***************************************************************************)
(* State-machine model of the AIO analyzer:                                *)
(*   - SERPHandler (src/src/utils/serp_handler.py): the batch validation   *)
(*     engine, its admission semaphore, its pacing clock and its per       *)
(*     keyword retry loop, as asyncio coroutines that interleave at their  *)
(*     await points;                                                       *)
(*   - the Celery pipeline (src/backend/aio_analyzer/apps/analysis/        *)
(*     tasks.py): run_complete_analysis and the stage tasks it dispatches, *)
(*     with the KeywordData rows they store and the answers of their       *)
(*     collaborators (GSCHandler, AdsHandler, SERPHandler);                *)
(*   - SERPHandler._parse_serp_response on Serper responses;               *)
(*   - the seed list on its way from expand_keywords to the request of     *)
(*     AdsHandler.generate_keyword_ideas;                                  *)
(*   - AIOAnalyzer.run_full_analysis (src/src/aio_analyzer.py), the        *)
(*     command-line pipeline;                                              *)
(*   - the preview application (src/local_preview/app.py): start_analysis  *)
(*     and the pipeline threads that write the shared analysis_status.     *)
(*                                                                         *)
(* Time is discrete and kept relative: instead of time.time() and the      *)
(* absolute _last_request_time the model keeps their difference            *)
(* (since_last_request), and every sleeping coroutine keeps the time it    *)
(* still has to sleep.  Differences saturate at Sat, which is at least     *)
(* every interval they are compared with.                                  *)
(***************************************************************************)
EXTENDS Integers, Sequences, FiniteSets, TLC

\* ------------------------------------------------------------------ bounds
MaxKeywords == 3        \* longest keyword list handed to batch_validate_aio
MaxConcurrent == 2      \* largest concurrent_requests
MaxInterval == 2        \* largest 1 / rate_limit, in ticks
MaxAttempts == 2        \* largest retry_attempts
MaxDelay == 1           \* largest retry_delay, in ticks
MaxRetryAfter == 1      \* largest Retry-After header value, in ticks
MaxRuns == 2            \* runs of run_complete_analysis on the Project
MaxCancels == 1         \* stop and cancel requests made on the Project
MaxFaults == 3          \* exceptions raised in the stage tasks of the Project
MaxOrganic == 4         \* longest list of organic results in a response
MaxSeeds == 22          \* longest list of seed keywords
MaxStarts == 2          \* start_analysis requests made to the preview application
MaxFairKeywords == 2    \* longest keyword list under the fair scheduling

Keywords == {"a", "b"}
TaskIds == 1 .. MaxKeywords
NoHint == -1

Min(x, y) == IF x < y THEN x ELSE y
Max(x, y) == IF x > y THEN x ELSE y

\* Saturation point of the relative clocks: they are only compared with
\* min_interval, which is at most MaxInterval.
Sat == MaxInterval

SeqsUpTo(S, n) == UNION {[1 .. m -> S] : m \in 0 .. n}

\* The keyword lists tried: every list of at most MaxKeywords keywords, up to
\* renaming of the keywords (a list names "a" before it names "b").
KeywordLists ==
    {kws \in SeqsUpTo(Keywords, MaxKeywords) :
        \A i \in DOMAIN kws : kws[i] = "b" => \E j \in 1 .. (i - 1) : kws[j] = "a"}

VARIABLES
    \* SERPHandler configuration (__init__)
    concurrent_requests,   \* serp.concurrent_requests
    min_interval,          \* 1.0 / serp.rate_limit (rate_limit > 0)
    retry_attempts,        \* performance.retry_attempts
    retry_delay,           \* performance.retry_delay
    \* SERPHandler state
    sem_value,             \* free slots of self._semaphore
    since_last_request,    \* time.time() - self._last_request_time, saturated
    \* one batch_validate_aio call
    batch_pc,              \* "idle" | "gathering" | "returned"
    keywords,              \* the keyword list of the call
    task,                  \* process_keyword coroutines, by position in keywords
    processed_count,       \* nonlocal processed_count
    aio_count,             \* nonlocal aio_count
    results,               \* the returned dict
    session_open,          \* an aiohttp.ClientSession is open
    \* observation of the probe starts (HTTP requests issued)
    since_probe,           \* time since the latest probe start, saturated
    \* the Celery pipeline of one AnalysisProject
    db_project,            \* the stored AnalysisProject row
    db_task,               \* the stored AnalysisTask rows, by run and stage
    run,                   \* runs of run_complete_analysis started so far
    orch,                  \* run_complete_analysis: its place and its project object
    celery,                \* Celery's state and retry count of each stage task
    stage_project,         \* the project object each stage task loaded
    db_keyword,            \* the stored KeywordData rows of the project, by keyword
    cancels,               \* stop and cancel requests made so far
    faults,                \* exceptions raised in stage tasks so far
    call,                  \* the collaborator call of each running stage task
    world,                 \* what the collaborators can answer
    \* one _parse_serp_response call
    parse,                 \* the response data and the SERPResult returned
    \* one keyword expansion
    expansion,             \* the seed list, on its way to the vendor request
    \* one AIOAnalyzer.run_full_analysis call
    analyzer,              \* its place, its DataFrames and the summary returned
    \* the preview application
    preview                \* analysis_status and the pipeline threads

serp_vars == <<concurrent_requests, min_interval, retry_attempts, retry_delay,
               sem_value, since_last_request, batch_pc, keywords, task,
               processed_count, aio_count, results, session_open,
               since_probe>>

pipe_vars == <<db_project, db_task, run, orch, celery, stage_project,
               db_keyword, cancels, faults, call, world>>

unit_vars == <<parse, expansion, analyzer, preview>>

\* ------------------------------------------------------------- SERPResult
NoResult == [kind |-> "none", has_aio |-> FALSE, error |-> FALSE]
SERPResult(aio, err) == [kind |-> "result", has_aio |-> aio, error |-> err]
Raised == [kind |-> "raised", has_aio |-> FALSE, error |-> TRUE]

\* A process_keyword coroutine that has not been created.
NoTask ==
    [pc |-> "none", slot |-> FALSE, probes |-> 0, timer |-> 0, waited |-> 0,
     hint |-> NoHint, only429 |-> TRUE, rejected |-> FALSE, order |-> 0,
     result |-> NoResult]

\* The coroutine once gather has scheduled it: it stands before
\* "async with self._semaphore".
NewTask == [NoTask EXCEPT !.pc = "wait_sem"]

\* ------------------------------------------------- _make_serp_request
\* The places of a coroutine inside "async with self._semaphore".
InFlightPcs == {"rate_sleep", "request", "retry_after_sleep", "backoff_sleep"}

\* The coroutines that hold a slot: they entered "async with
\* self._semaphore" and have not left it.
InFlight == {k \in TaskIds : task[k].slot}

\* Mutant: the semaphore admits a coroutine whatever its value.
SemaphoreNeverBlocks == TRUE

\* Mutant: the last slot is never handed out.
SemaphoreKeepsOne == sem_value > 1

\* asyncio.Semaphore.acquire returns at once only while a slot is free.
SemaphoreFree == sem_value > 0

\* session.post(...) is issued: one probe starts.  (rejected tells what the
\* latest response of the keyword was.)
StartProbe(t) ==
    [t EXCEPT !.pc = "request", !.probes = @ + 1, !.timer = 0,
              !.rejected = FALSE]

\* Leaving _make_serp_request with a result (the semaphore is released by
\* the caller of this operator), then the rest of process_keyword.
Finish(t, res) ==
    [t EXCEPT !.pc = "done", !.timer = 0, !.waited = 0, !.hint = NoHint,
              !.result = res]

\* Mutant: the retry loop ends by raising instead of returning a result.
ExhaustedRaises == Raised

\* The return after the retry loop.
ExhaustedResult == SERPResult(FALSE, TRUE)

\* Mutant: the loop runs while attempt <= retry_attempts.
OneMoreAttempt(t) ==
    IF t.probes <= retry_attempts THEN StartProbe(t)
    ELSE Finish(t, ExhaustedResult)

\* "for attempt in range(self.retry_attempts)": the next iteration, or the
\* fall-through to the final return when the range is used up.
NextAttempt(t) ==
    IF t.probes < retry_attempts THEN StartProbe(t)
    ELSE Finish(t, ExhaustedResult)

\* "if attempt < self.retry_attempts - 1: await asyncio.sleep(
\* self.retry_delay * (attempt + 1))" at the end of an iteration that did
\* not return; attempt = t.probes - 1.
BackoffDelay(t) == retry_delay * t.probes

AfterFailedAttempt(t) ==
    IF t.probes - 1 < retry_attempts - 1
    THEN [t EXCEPT !.pc = "backoff_sleep", !.timer = BackoffDelay(t),
                   !.waited = @ + BackoffDelay(t)]
    ELSE Finish(t, ExhaustedResult)

\* Mutant: the slot is given back only when the probe succeeded.
ReleasedOnSuccess(t) == ~t.result.error

\* "async with self._semaphore" is left, on whatever way the coroutine
\* leaves _make_serp_request: the slot is given back.
Released(t) == TRUE

\* The shared effects of moving coroutine k from t1 = task[k] to t2: the
\* probe clock when a probe starts, and the end of process_keyword
\* (semaphore release, progress counters, the place of the coroutine in the
\* order of completion: processed_count after its increment) when it
\* finishes.
Commit(k, t2, acquired) ==
    LET started == t2.probes > task[k].probes
        done == t2.pc = "done"
        released == done /\ Released(t2)
    IN  /\ task' = [task EXCEPT ![k] =
                      [t2 EXCEPT !.slot = (@ \/ acquired) /\ ~released,
                                 !.order = IF done THEN processed_count + 1
                                           ELSE @]]
        /\ sem_value' = sem_value - (IF acquired THEN 1 ELSE 0)
                                  + (IF released THEN 1 ELSE 0)
        /\ since_probe' = IF started THEN 0 ELSE since_probe
        /\ processed_count' = IF done THEN processed_count + 1 ELSE processed_count
        /\ aio_count' = IF done /\ t2.result.has_aio THEN aio_count + 1 ELSE aio_count

\* _rate_limit_delay up to its await: read the clock, compute the wait.
\* Returns the time to sleep (0: no sleep, the clock is updated at once).
RateSleepTime ==
    IF since_last_request < min_interval
    THEN min_interval - since_last_request
    ELSE 0

\* "async with self._semaphore" is entered and _rate_limit_delay runs up to
\* its first suspension.  gather schedules the coroutines in list order and
\* the semaphore wakes its waiters first come, first served.
Acquire(k) ==
    /\ batch_pc = "gathering"
    /\ task[k].pc = "wait_sem"
    /\ \A j \in 1 .. (k - 1) : task[j].pc # "wait_sem"
    /\ SemaphoreFree
    /\ IF RateSleepTime > 0
       THEN /\ Commit(k, [task[k] EXCEPT !.pc = "rate_sleep",
                                         !.timer = RateSleepTime], TRUE)
            /\ UNCHANGED since_last_request
       ELSE /\ Commit(k, NextAttempt(task[k]), TRUE)
            /\ since_last_request' = 0
    /\ UNCHANGED <<pipe_vars, unit_vars>>
    /\ UNCHANGED <<concurrent_requests, min_interval, retry_attempts,
                   retry_delay, batch_pc, keywords, results, session_open>>

\* asyncio.sleep(sleep_time) of _rate_limit_delay is over:
\* self._last_request_time = time.time(), then the retry loop starts.
RateWake(k) ==
    /\ task[k].pc = "rate_sleep"
    /\ task[k].timer = 0
    /\ Commit(k, NextAttempt(task[k]), FALSE)
    /\ since_last_request' = 0
    /\ UNCHANGED <<pipe_vars, unit_vars>>
    /\ UNCHANGED <<concurrent_requests, min_interval, retry_attempts,
                   retry_delay, batch_pc, keywords, results, session_open>>

\* The responses a probe can end with.
Successes == {"200_aio", "200_no_aio", "200_parse_error"}
Failures == {"5xx", "timeout", "error"}
Rejections == {"401", "403", "4xx"}
Headers == {NoHint} \cup (1 .. MaxRetryAfter)

\* _parse_serp_response on a 200 response.
ParseResult(outcome) ==
    CASE outcome = "200_aio" -> SERPResult(TRUE, FALSE)
      [] outcome = "200_no_aio" -> SERPResult(FALSE, FALSE)
      [] OTHER -> SERPResult(FALSE, TRUE)

\* "retry_after = int(response.headers.get('Retry-After', self.retry_delay))"
RetryAfter(header) == IF header = NoHint THEN retry_delay ELSE header

\* The probe of coroutine k returns status 200.
ResponseOk(k) ==
    /\ task[k].pc = "request"
    /\ \E outcome \in Successes :
          Commit(k, Finish([task[k] EXCEPT !.only429 = FALSE],
                           ParseResult(outcome)), FALSE)
    /\ UNCHANGED <<pipe_vars, unit_vars>>
    /\ UNCHANGED <<concurrent_requests, min_interval, retry_attempts,
                   retry_delay, since_last_request, batch_pc, keywords,
                   results, session_open>>

\* The probe returns status 429: sleep retry_after first.
Response429(k) ==
    /\ task[k].pc = "request"
    /\ \E header \in Headers :
          Commit(k, [task[k] EXCEPT !.pc = "retry_after_sleep",
                                    !.timer = RetryAfter(header),
                                    !.waited = RetryAfter(header),
                                    !.hint = header], FALSE)
    /\ UNCHANGED <<pipe_vars, unit_vars>>
    /\ UNCHANGED <<concurrent_requests, min_interval, retry_attempts,
                   retry_delay, since_last_request, batch_pc, keywords,
                   results, session_open>>

\* The probe returns another status, times out or raises: the "else"
\* branch and the except branches log a warning, whatever the status.
ResponseFailure(k) ==
    /\ task[k].pc = "request"
    /\ \E outcome \in Failures \cup Rejections :
          Commit(k, AfterFailedAttempt([task[k] EXCEPT
                                           !.only429 = FALSE,
                                           !.rejected = outcome \in Rejections,
                                           !.waited = 0,
                                           !.hint = NoHint]), FALSE)
    /\ UNCHANGED <<pipe_vars, unit_vars>>
    /\ UNCHANGED <<concurrent_requests, min_interval, retry_attempts,
                   retry_delay, since_last_request, batch_pc, keywords,
                   results, session_open>>

\* asyncio.sleep(retry_after) is over: the end of the iteration follows.
RetryAfterWake(k) ==
    /\ task[k].pc = "retry_after_sleep"
    /\ task[k].timer = 0
    /\ Commit(k, AfterFailedAttempt(task[k]), FALSE)
    /\ UNCHANGED <<pipe_vars, unit_vars>>
    /\ UNCHANGED <<concurrent_requests, min_interval, retry_attempts,
                   retry_delay, since_last_request, batch_pc, keywords,
                   results, session_open>>

\* asyncio.sleep(retry_delay * (attempt + 1)) is over: the next iteration.
BackoffWake(k) ==
    /\ task[k].pc = "backoff_sleep"
    /\ task[k].timer = 0
    /\ Commit(k, NextAttempt(task[k]), FALSE)
    /\ UNCHANGED <<pipe_vars, unit_vars>>
    /\ UNCHANGED <<concurrent_requests, min_interval, retry_attempts,
                   retry_delay, since_last_request, batch_pc, keywords,
                   results, session_open>>

\* A coroutine the event loop can resume now: a sleeper whose time is up, or
\* a coroutine before the semaphore while a slot is free.
Runnable(k) ==
    \/ task[k].pc \in {"rate_sleep", "retry_after_sleep", "backoff_sleep"}
       /\ task[k].timer = 0
    \/ task[k].pc = "wait_sem" /\ SemaphoreFree
       /\ \A j \in 1 .. (k - 1) : task[j].pc # "wait_sem"

\* One unit of time passes.  The event loop runs every coroutine that is
\* ready before it blocks, so time passes only when none is; a probe's
\* response may arrive at any time.
Tick ==
    /\ batch_pc = "gathering"
    /\ \E k \in TaskIds : task[k].pc \in InFlightPcs
    /\ \A k \in TaskIds : ~Runnable(k)
    /\ task' = [k \in TaskIds |-> [task[k] EXCEPT !.timer = Max(0, @ - 1)]]
    /\ since_last_request' = Min(Sat, since_last_request + 1)
    /\ since_probe' = Min(Sat, since_probe + 1)
    /\ UNCHANGED <<pipe_vars, unit_vars>>
    /\ UNCHANGED <<concurrent_requests, min_interval, retry_attempts,
                   retry_delay, sem_value, batch_pc, keywords, processed_count,
                   aio_count, results, session_open>>

\* ------------------------------------------------- batch_validate_aio
\* Mutant: the check for the empty list is missing.
NoKeywordsUnchecked(kws) == FALSE

\* "if not keywords"
NoKeywords(kws) == Len(kws) = 0

\* Mutant: only the keywords that trigger are stored.
RECURSIVE CollectTriggered(_, _, _)
CollectTriggered(kws, tasks, i) ==
    IF i = 0 THEN <<>>
    ELSE LET before == CollectTriggered(kws, tasks, i - 1)
         IN  IF ~tasks[i].result.has_aio THEN before
             ELSE [kw \in (DOMAIN before) \cup {kws[i]} |->
                      IF kw = kws[i] THEN TRUE ELSE before[kw]]

\* Mutant: each coroutine stores its pair when it completes, so that the
\* occurrence that completed last stays.
CollectAsCompleted(kws, tasks, i) ==
    [kw \in {kws[j] : j \in 1 .. i} |->
        tasks[CHOOSE j \in 1 .. i :
                 /\ kws[j] = kw
                 /\ \A l \in 1 .. i :
                       kws[l] = kw => tasks[l].order <= tasks[j].order
             ].result.has_aio]

\* The loop over completed_tasks: gather returns the outcomes in the order
\* of the keyword list; an exception is logged, a pair is stored.
RECURSIVE CollectResults(_, _, _)
CollectResults(kws, tasks, i) ==
    IF i = 0 THEN <<>>
    ELSE LET before == CollectResults(kws, tasks, i - 1)
         IN  IF tasks[i].result.kind = "raised" THEN before
             ELSE [kw \in (DOMAIN before) \cup {kws[i]} |->
                      IF kw = kws[i] THEN tasks[i].result.has_aio
                      ELSE before[kw]]

\* batch_validate_aio(kws) is called: the empty list returns {} at once,
\* otherwise the session is opened and gather schedules one process_keyword
\* per list element.
BatchStart(kws) ==
    /\ batch_pc = "idle"
    /\ keywords' = kws
    /\ IF NoKeywords(kws)
       THEN /\ batch_pc' = "returned"
            /\ UNCHANGED <<task, session_open>>
       ELSE /\ batch_pc' = "gathering"
            /\ session_open' = TRUE
            /\ task' = [k \in TaskIds |->
                          IF k <= Len(kws) THEN NewTask ELSE NoTask]
    /\ results' = <<>>
    /\ UNCHANGED <<pipe_vars, unit_vars>>
    /\ UNCHANGED <<concurrent_requests, min_interval, retry_attempts,
                   retry_delay, sem_value, since_last_request, processed_count,
                   aio_count, since_probe>>

\* gather has every outcome: the results are collected, the session is
\* closed and the dict is returned.
BatchReturn ==
    /\ batch_pc = "gathering"
    /\ \A k \in 1 .. Len(keywords) : task[k].pc = "done"
    /\ results' = CollectResults(keywords, task, Len(keywords))
    /\ session_open' = FALSE
    /\ batch_pc' = "returned"
    /\ UNCHANGED <<pipe_vars, unit_vars>>
    /\ UNCHANGED <<concurrent_requests, min_interval, retry_attempts,
                   retry_delay, sem_value, since_last_request, keywords, task,
                   processed_count, aio_count, since_probe>>

\* SERPHandler.__init__ with a configuration of the bounded ranges.
SerpInit ==
    /\ concurrent_requests \in 1 .. MaxConcurrent
    /\ min_interval \in 1 .. MaxInterval
    /\ retry_attempts \in 0 .. MaxAttempts
    /\ retry_delay \in 0 .. MaxDelay
    /\ sem_value = concurrent_requests
    /\ since_last_request = Sat
    /\ batch_pc = "idle"
    /\ keywords = <<>>
    /\ task = [k \in TaskIds |-> NoTask]
    /\ processed_count = 0
    /\ aio_count = 0
    /\ results = <<>>
    /\ session_open = FALSE
    /\ since_probe = Sat

\* The steps of a call that is under way.
BatchStep ==
    \/ BatchReturn
    \/ Tick
    \/ \E k \in TaskIds :
          \/ Acquire(k)
          \/ RateWake(k)
          \/ ResponseOk(k)
          \/ Response429(k)
          \/ ResponseFailure(k)
          \/ RetryAfterWake(k)
          \/ BackoffWake(k)

SerpNext ==
    \/ \E kws \in KeywordLists : BatchStart(kws)
    \/ BatchStep

\* The keyword lists tried under the fair scheduling.
ShortLists == {kws \in KeywordLists : Len(kws) <= MaxFairKeywords}

FairNext ==
    \/ \E kws \in ShortLists : BatchStart(kws)
    \/ BatchStep

\* =============================================================== pipeline
\* gsc_extraction, keyword_expansion, aio_validation, report_generation
Stages == 1 .. 4
ReportStage == 4
Runs == 1 .. MaxRuns

\* error_message is blank until something fails; afterwards it is str(e) of
\* the exception: here the stage that raised it and the kind of the error.
NoError == [stage |-> 0, kind |-> "none"]
ErrorMessage(s, kind) == [stage |-> s, kind |-> kind]

\* AnalysisProject as created: status 'created', the counters 0, no error.
NewProject ==
    [status |-> "created", completed_steps |-> 0, total_keywords |-> 0,
     aio_keywords |-> 0, error_message |-> NoError]

\* (aio_count / total * 100) if total > 0 else 0, kept exact as the pair
\* <<numerator, denominator>>.
Percentage(count, total) ==
    IF total > 0 THEN <<count * 100, total>> ELSE <<0, 1>>

\* AnalysisProject.aio_percentage
ProjectPercentage(p) == Percentage(p.aio_keywords, p.total_keywords)

\* result_data = models.JSONField(default=dict): the totals a stage task
\* writes into it when it completes.
NoData == [total |-> 0, aio |-> 0, aio_percentage |-> <<0, 1>>]

\* No AnalysisTask row / AnalysisTask.objects.create(...): status
\* 'pending', result_count 0, no error, no result data.
AbsentTask ==
    [status |-> "absent", error_message |-> NoError, result_count |-> 0,
     result_data |-> NoData]
NewAnalysisTask == [AbsentTask EXCEPT !.status = "pending"]

\* No KeywordData row / the row get_or_create makes: aio_verified and
\* aio_triggers are null.
NoRow == [source_type |-> "none", aio_verified |-> "null", aio_triggers |-> "null"]
NewKeywordData(src) ==
    [source_type |-> src, aio_verified |-> "null", aio_triggers |-> "null"]

\* KeywordData.objects.filter(project=project)
Rows(db) == {kw \in DOMAIN db : db[kw].source_type # "none"}

\* ...filter(project=project, source_type='gsc'): the seeds of expansion.
SeedKeywords(db) == {kw \in DOMAIN db : db[kw].source_type = "gsc"}

\* Mutant: every stored keyword is validated again.
VerifyAllRows(db) == Rows(db)

\* ...filter(project=project, aio_verified__isnull=True)
KeywordsToVerify(db) ==
    {kw \in Rows(db) : db[kw].aio_verified = "null"}

\* ...filter(project=project, aio_triggers=True).count()
AioTriggerCount(db) ==
    Cardinality({kw \in Rows(db) : db[kw].aio_triggers = "true"})

\* Mutant: update_or_create, an existing row is made anew.
CreateAlways(db, kws, src) ==
    [kw \in DOMAIN db |-> IF kw \in kws THEN NewKeywordData(src) ELSE db[kw]]

\* get_or_create(project, keyword, defaults={'source_type': src, ...}) for
\* every row of a result: an existing row keeps its source and its
\* validation fields.
GetOrCreate(db, kws, src) ==
    [kw \in DOMAIN db |->
        IF kw \in kws /\ db[kw].source_type = "none"
        THEN NewKeywordData(src) ELSE db[kw]]

\* The loop over keywords_to_verify as far as it got (kws): each keyword of
\* it is stored as verified, with
\* aio_triggers = validation_results.get(keyword, False).
StoreValidation(db, kws, triggered) ==
    [kw \in DOMAIN db |->
        IF kw \in kws
        THEN [db[kw] EXCEPT !.aio_verified = "true",
                            !.aio_triggers =
                                IF kw \in triggered THEN "true" ELSE "false"]
        ELSE db[kw]]

\* A stage task that was never sent / that .delay(...) has just sent.
NotSent == [state |-> "none", retries |-> 0, countdown |-> 0]
Sent == [state |-> "PENDING", retries |-> 0, countdown |-> 0]

\* A stage task that returned: the result backend has its state and its
\* return value; the request, with its retry count, is gone.
Succeeded == [state |-> "SUCCESS", retries |-> 0, countdown |-> 0]

\* Mutant: one retry more than the decorator allows.
OneMoreRetry(s) ==
    CASE s = 1 -> 4
      [] s = 2 -> 4
      [] s = 3 -> 3
      [] OTHER -> 0

\* max_retries of the shared_task decorators; the reporting task is not
\* retried.
MaxRetries(s) ==
    CASE s = 1 -> 3
      [] s = 2 -> 3
      [] s = 3 -> 2
      [] OTHER -> 0

\* The factor of the countdown: 60 s for extraction and expansion, 120 s
\* for validation.
RetryBase(s) ==
    CASE s = 1 -> 60
      [] s = 2 -> 60
      [] s = 3 -> 120
      [] OTHER -> 0

\* Mutant: the countdown taken from the number of retries already made.
CountdownFromZero(s, retries) == RetryBase(s) * retries

\* countdown=60 * (self.request.retries + 1), 120 * ... for validation.
Countdown(s, retries) == RetryBase(s) * (retries + 1)

\* A Project is started only while its status is 'created' or 'failed'.
CanStart == db_project.status \in {"created", "failed"}

\* Mutant: get() also returns while the task waits for a retry.
GetReturnsOnRetry(s) == celery[s].state \in {"SUCCESS", "RETRY"}

\* Mutant: the stage is sent and not waited for.
GetDoesNotWait(s) == celery[s].state # "none"

\* Mutant: get(propagate=False), a failed stage does not stop the
\* orchestrator.
GetIgnoresFailure(s) == celery[s].state \in {"SUCCESS", "FAILURE"}

\* "<stage>_result.get()  # wait for completion": AsyncResult.get returns
\* once the task has succeeded; it keeps waiting while the task runs or
\* waits for a retry.
GetReturns(s) == celery[s].state = "SUCCESS"

\* AsyncResult.get re-raises the task's exception once the task has failed
\* for good.
GetRaises(s) == celery[s].state = "FAILURE"

\* The stages whose tasks are extract_gsc_data, expand_keywords and
\* validate_aio_triggers.
CodeStages == Stages \ {ReportStage}

\* The errors a vendor call ends with when it raises.
VendorFaults == {"TransientNetwork", "UpstreamAuthFailure"}

\* What the collaborators of a Project can answer: the keyword sets the
\* Search Console query and the keyword-idea request can return, the
\* keywords the SERP probes can find triggering, the keywords whose
\* probes can fail, and the errors a vendor call can raise.
Collaborators ==
    [gsc |-> {{}, {"a"}}, ads |-> {{}, {"a", "b"}},
     triggers |-> SUBSET Keywords, errors |-> SUBSET Keywords,
     faults |-> VendorFaults]

\* A stage task that has not called its collaborator / whose call raised /
\* whose call returned: items are the rows of gsc_data, the ideas of
\* expanded_data, the keywords validation_results has as True; errors are
\* the keywords whose probe failed.
NoCall == [outcome |-> "none", kind |-> "none", items |-> {}, errors |-> {}]
CallRaised(kind) == [NoCall EXCEPT !.outcome = "raised", !.kind = kind]
CallReturned(items, errors) ==
    [NoCall EXCEPT !.outcome = "returned", !.items = items, !.errors = errors]

\* The ways the collaborator call of stage s can end.  A keyword whose
\* probe failed has has_aio False.
CallOutcomes(s, db) ==
    {CallRaised(kind) : kind \in world.faults}
    \cup
    CASE s = 1 -> {CallReturned(rows, {}) : rows \in world.gsc}
      [] s = 2 -> {CallReturned(ideas, {}) : ideas \in world.ads}
      [] s = 3 -> {CallReturned((t \ e) \cap KeywordsToVerify(db),
                                e \cap KeywordsToVerify(db)) :
                      t \in world.triggers, e \in world.errors}
      [] OTHER -> {}

\* The stage reaches its collaborator call: extraction always, expansion
\* when there are seed keywords, validation when there are keywords to
\* verify.
CanCall(s, db) ==
    CASE s = 1 -> TRUE
      [] s = 2 -> SeedKeywords(db) # {}
      [] s = 3 -> KeywordsToVerify(db) # {}
      [] OTHER -> FALSE

\* What the handler hands to the task.  GSCHandler.get_search_analytics_data
\* and AdsHandler.generate_keyword_ideas catch every exception of the
\* vendor call and return an empty DataFrame.
HandlerResult(s, c) ==
    IF c.outcome = "raised" THEN {} ELSE c.items

\* The task sees the call fail: only validation, whose
\* test_api_connection() returns False and the task raises ValueError.
HandlerRaises(s, c) == s = 3 /\ c.outcome = "raised"

\* run_complete_analysis up to its first get(): the project is loaded,
\* marked 'running' and saved, the four AnalysisTasks are created,
\* extraction is sent.  The stage tasks of this run have loaded nothing
\* yet.
RunStart ==
    /\ orch.pc # "waiting"
    /\ run < MaxRuns
    /\ CanStart
    /\ run' = run + 1
    /\ db_project' = [db_project EXCEPT !.status = "running"]
    /\ orch' = [pc |-> "waiting", stage |-> 1, project |-> db_project']
    /\ db_task' = [db_task EXCEPT ![run + 1] = [s \in Stages |-> NewAnalysisTask]]
    /\ celery' = [s \in Stages |-> IF s = 1 THEN Sent ELSE NotSent]
    /\ stage_project' = [s \in Stages |-> NewProject]
    /\ call' = [s \in Stages |-> NoCall]
    /\ UNCHANGED <<db_keyword, cancels, world, faults>>
    /\ UNCHANGED <<serp_vars, unit_vars>>

\* A worker starts (or starts again, after the retry countdown) the task
\* of stage s: the AnalysisTask is marked 'running', the project is loaded
\* and saved with its current_step.
BeginStage(s) ==
    /\ celery[s].state \in {"PENDING", "RETRY"}
    /\ celery' = [celery EXCEPT ![s].state = "STARTED"]
    /\ db_task' = [db_task EXCEPT ![run][s].status = "running"]
    /\ stage_project' = [stage_project EXCEPT ![s] = db_project]
    /\ call' = [call EXCEPT ![s] = NoCall]
    /\ UNCHANGED <<db_project, run, orch, db_keyword, cancels, world, faults>>
    /\ UNCHANGED <<serp_vars, unit_vars>>

\* loop.run_until_complete(<handler call>) of stage s ends: the vendor
\* returned a result or raised.
CallCollaborator(s) ==
    /\ celery[s].state = "STARTED"
    /\ call[s].outcome = "none"
    /\ CanCall(s, db_keyword)
    /\ \E c \in CallOutcomes(s, db_keyword) : call' = [call EXCEPT ![s] = c]
    /\ UNCHANGED <<db_project, db_task, run, orch, celery, stage_project,
                   db_keyword, cancels, world, faults>>
    /\ UNCHANGED <<serp_vars, unit_vars>>

\* The stage goes on to store its result: gsc_data / expanded_data is not
\* empty, batch_validate_aio returned; the report has no collaborator.
HasOutput(s, c) ==
    CASE s \in {1, 2} -> c.outcome # "none" /\ HandlerResult(s, c) # {}
      [] s = 3 -> c.outcome = "returned"
      [] OTHER -> TRUE

\* The stage's early "completed, count 0" return: gsc_data.empty; no seed
\* keywords or expanded_data.empty; no keywords to verify.
IsEmpty(s, c, db) ==
    CASE s = 1 -> c.outcome # "none" /\ HandlerResult(s, c) = {}
      [] s = 2 -> \/ SeedKeywords(db) = {}
                  \/ c.outcome # "none" /\ HandlerResult(s, c) = {}
      [] s = 3 -> KeywordsToVerify(db) = {}
      [] OTHER -> FALSE

\* The KeywordData rows after the stage stored the part kws of its
\* output.
StageStore(s, db, c, kws) ==
    CASE s = 1 -> GetOrCreate(db, kws, "gsc")
      [] s = 2 -> GetOrCreate(db, kws, "ads_expansion")
      [] s = 3 -> StoreValidation(db, kws, c.items)
      [] OTHER -> db

\* Mutant: a keyword whose probe failed is left unverified.
StoreLoopSkipsErrors(s, db, c) ==
    CASE s \in {1, 2} -> HandlerResult(s, c)
      [] s = 3 -> KeywordsToVerify(db) \ c.errors
      [] OTHER -> {}

\* The keywords the storing loop of stage s goes over.
StoreLoop(s, db, c) ==
    CASE s \in {1, 2} -> HandlerResult(s, c)
      [] s = 3 -> KeywordsToVerify(db)
      [] OTHER -> {}

\* "update the project statistics": completed_steps += 1 and the count the
\* stage owns, on the project object the task loaded when it began.
StageStatistics(s, p, db) ==
    CASE s \in {1, 2} ->
            [p EXCEPT !.completed_steps = @ + 1,
                      !.total_keywords = Cardinality(Rows(db))]
      [] s = 3 ->
            [p EXCEPT !.completed_steps = @ + 1,
                      !.aio_keywords = AioTriggerCount(db)]
      [] OTHER -> [p EXCEPT !.completed_steps = @ + 1]

\* result_count and result_data of a completed task: keywords_created and
\* len(gsc_data) / len(expanded_data); verified_count, and total_verified,
\* aio_triggers = aio_count of the storing loop and aio_percentage.
StageResult(s, db, db2, c) ==
    CASE s \in {1, 2} ->
            [count |-> Cardinality(Rows(db2) \ Rows(db)),
             data |-> [NoData EXCEPT !.total = Cardinality(HandlerResult(s, c))]]
      [] s = 3 ->
            [count |-> Cardinality(KeywordsToVerify(db)),
             data |-> [total |-> Cardinality(KeywordsToVerify(db)),
                       aio |-> Cardinality(c.items),
                       aio_percentage |->
                           Percentage(Cardinality(c.items),
                                      Cardinality(KeywordsToVerify(db)))]]
      [] OTHER -> [count |-> 0, data |-> NoData]

\* The task of stage s ends normally with an output: the output is stored,
\* the AnalysisTask is 'completed' with its result, the task's project
\* object gets its statistics and is saved; the task returns and its
\* objects are gone.
CompleteStage(s) ==
    /\ celery[s].state = "STARTED"
    /\ HasOutput(s, call[s])
    /\ db_keyword' = StageStore(s, db_keyword, call[s],
                                StoreLoop(s, db_keyword, call[s]))
    /\ db_project' = StageStatistics(s, stage_project[s], db_keyword')
    /\ celery' = [celery EXCEPT ![s] = Succeeded]
    /\ LET res == StageResult(s, db_keyword, db_keyword', call[s])
       IN  db_task' = [db_task EXCEPT ![run][s].status = "completed",
                                      ![run][s].result_count = res.count,
                                      ![run][s].result_data = res.data]
    /\ stage_project' = [stage_project EXCEPT ![s] = NewProject]
    /\ call' = [call EXCEPT ![s] = NoCall]
    /\ UNCHANGED <<run, orch, cancels, world, faults>>
    /\ UNCHANGED <<serp_vars, unit_vars>>

\* The task of stage s finds nothing to do (no rows, no seed keywords, no
\* ideas, no keywords to verify): the AnalysisTask is 'completed' with
\* count 0 and the task returns.
EmptyStage(s) ==
    /\ celery[s].state = "STARTED"
    /\ IsEmpty(s, call[s], db_keyword)
    /\ celery' = [celery EXCEPT ![s] = Succeeded]
    /\ db_task' = [db_task EXCEPT ![run][s].status = "completed",
                                  ![run][s].result_count = 0,
                                  ![run][s].result_data = NoData]
    /\ stage_project' = [stage_project EXCEPT ![s] = NewProject]
    /\ call' = [call EXCEPT ![s] = NoCall]
    /\ UNCHANGED <<db_project, run, orch, db_keyword, cancels, world, faults>>
    /\ UNCHANGED <<serp_vars, unit_vars>>

\* Mutant: a batch all of whose probes failed raises.
AllProbesFailedRaises(s, db, c) ==
    {"Interrupted"} \cup
    (IF s = 3 /\ c.errors = KeywordsToVerify(db)
     THEN {"TransientNetwork"} ELSE {})

\* What can go wrong once the call has returned: the storing loop and the
\* saves are interrupted (SoftTimeLimitExceeded of task_soft_time_limit, a
\* storage error).  Nothing in the result makes the task raise.
FaultsAfterCall(s, db, c) == {"Interrupted"}

\* The exceptions the task of stage s can raise where it is: missing
\* configuration (credentials file, Google Ads customer id, SERP API key)
\* before the call; the failed connection test of validation; an
\* interruption afterwards.
Faults(s, db, c) ==
    CASE s = ReportStage -> {"Interrupted"}
      [] c.outcome = "none" ->
            IF CanCall(s, db) THEN {"InvalidInput"} ELSE {}
      [] c.outcome = "raised" ->
            IF HandlerRaises(s, c) THEN {c.kind} ELSE {}
      [] OTHER -> FaultsAfterCall(s, db, c)

\* How far the storing loop got before the exception.
PartialStores(s, db, c) ==
    IF c.outcome = "returned" THEN SUBSET StoreLoop(s, db, c) ELSE {{}}

\* The task of stage s raises: the except branch sets the AnalysisTask
\* 'failed' with str(e) as error_message and saves it; self.retry with its
\* countdown while request.retries < max_retries, else the exception is
\* raised.
FailStage(s) ==
    /\ celery[s].state = "STARTED"
    /\ faults < MaxFaults
    /\ faults' = faults + 1
    /\ \E kind \in Faults(s, db_keyword, call[s]),
          kws \in PartialStores(s, db_keyword, call[s]) :
          /\ db_keyword' = StageStore(s, db_keyword, call[s], kws)
          /\ db_task' = [db_task EXCEPT
                            ![run][s].status = "failed",
                            ![run][s].error_message = ErrorMessage(s, kind)]
    /\ celery' = [celery EXCEPT ![s] =
                     IF @.retries < MaxRetries(s)
                     THEN [state |-> "RETRY", retries |-> @.retries + 1,
                           countdown |-> Countdown(s, @.retries)]
                     ELSE [@ EXCEPT !.state = "FAILURE"]]
    /\ stage_project' = [stage_project EXCEPT ![s] = NewProject]
    /\ call' = [call EXCEPT ![s] = NoCall]
    /\ UNCHANGED <<db_project, run, orch, cancels, world>>
    /\ UNCHANGED <<serp_vars, unit_vars>>

\* generate_comprehensive_report: a StageTask like the others, never
\* retried; an empty report is no case of it.
ReportBegin == BeginStage(ReportStage)
ReportComplete == CompleteStage(ReportStage)
ReportFail == FailStage(ReportStage)

\* Mutant: the orchestrator saves only the fields it set.
OrchSaveOwnFields(p) ==
    [db_project EXCEPT !.status = p.status, !.error_message = p.error_message]

\* project.save() of the orchestrator: the row gets every field of the
\* project object run_complete_analysis loaded when it started.
OrchSave(p) == p

\* get() of the current stage returns: the next stage is sent, or after
\* the report the orchestrator's project object is saved as 'completed'.
OrchGetReturns ==
    /\ orch.pc = "waiting"
    /\ GetReturns(orch.stage)
    /\ IF orch.stage < ReportStage
       THEN /\ celery' = [celery EXCEPT ![orch.stage + 1] = Sent]
            /\ orch' = [orch EXCEPT !.stage = @ + 1]
            /\ UNCHANGED db_project
       ELSE /\ db_project' = OrchSave([orch.project EXCEPT !.status = "completed"])
            /\ orch' = [orch EXCEPT !.pc = "returned", !.project = NewProject]
            /\ UNCHANGED celery
    /\ UNCHANGED <<db_task, run, stage_project, db_keyword, cancels, faults, call, world>>
    /\ UNCHANGED <<serp_vars, unit_vars>>

\* get() raises the stage's exception e: the except branch saves the
\* orchestrator's project object as 'failed', with str(e) (the text the
\* stage stored in its AnalysisTask) as its error_message, and raises; the
\* orchestrator's objects are gone.
OrchGetRaises ==
    /\ orch.pc = "waiting"
    /\ GetRaises(orch.stage)
    /\ db_project' =
          OrchSave([orch.project EXCEPT
                       !.status = "failed",
                       !.error_message = db_task[run][orch.stage].error_message])
    /\ orch' = [orch EXCEPT !.pc = "raised", !.project = NewProject]
    /\ UNCHANGED <<db_task, run, celery, stage_project, db_keyword, cancels,
                   call, world, faults>>
    /\ UNCHANGED <<serp_vars, unit_vars>>

\* The stop request of a running Project: its status becomes 'cancelled'.
StopAnalysis ==
    /\ cancels < MaxCancels
    /\ db_project.status = "running"
    /\ db_project' = [db_project EXCEPT !.status = "cancelled"]
    /\ cancels' = cancels + 1
    /\ UNCHANGED <<db_task, run, orch, celery, stage_project, db_keyword,
                   call, world, faults>>
    /\ UNCHANGED <<serp_vars, unit_vars>>

\* The cancel request of a StageTask that is 'pending' or 'running': its
\* status becomes 'cancelled'.
CancelTask(s) ==
    /\ cancels < MaxCancels
    /\ run >= 1
    /\ db_task[run][s].status \in {"pending", "running"}
    /\ db_task' = [db_task EXCEPT ![run][s].status = "cancelled"]
    /\ cancels' = cancels + 1
    /\ UNCHANGED <<db_project, run, orch, celery, stage_project, db_keyword,
                   call, world, faults>>
    /\ UNCHANGED <<serp_vars, unit_vars>>

\* A Project as created, with no keywords stored, for the keywords kws.
FreshProject(kws) ==
    /\ db_project = NewProject
    /\ db_task = [r \in Runs |-> [s \in Stages |-> AbsentTask]]
    /\ run = 0
    /\ orch = [pc |-> "idle", stage |-> 0, project |-> NewProject]
    /\ celery = [s \in Stages |-> NotSent]
    /\ stage_project = [s \in Stages |-> NewProject]
    /\ db_keyword = [kw \in kws |-> NoRow]
    /\ cancels = 0
    /\ faults = 0
    /\ call = [s \in Stages |-> NoCall]

PipeInit ==
    /\ world = Collaborators
    /\ FreshProject(Keywords)

PipeNext ==
    \/ RunStart
    \/ OrchGetReturns
    \/ OrchGetRaises
    \/ StopAnalysis
    \/ ReportBegin
    \/ ReportComplete
    \/ ReportFail
    \/ \E s \in CodeStages :
          \/ BeginStage(s)
          \/ CallCollaborator(s)
          \/ CompleteStage(s)
          \/ EmptyStage(s)
          \/ FailStage(s)
    \/ \E s \in Stages : CancelTask(s)

\* ======================================================= response parsing
\* A Serper response as _parse_serp_response reads it: whether the key
\* 'aiOverview' is present; the answer box, with its snippet and title;
\* the knowledge graph, with its 'aiGenerated' key and its type; the
\* organic results, each with the marker it carries.
Absent == "absent"
NoAnswerBox == [present |-> FALSE, snippet |-> Absent, title |-> Absent]
AnswerBoxes ==
    {NoAnswerBox} \cup [present : {TRUE},
                        snippet : {Absent, "plain", "generated"},
                        title : {Absent, "plain", "ai"}]
NoKnowledgeGraph == [present |-> FALSE, aiGenerated |-> FALSE, type |-> Absent]
KnowledgeGraphs ==
    {NoKnowledgeGraph} \cup [present : {TRUE}, aiGenerated : BOOLEAN,
                             type : {Absent, "plain", "ai"}]
OrganicMarkers == {"none", "aiGenerated", "generatedByAI", "ai generated"}
NoOrganic == [present |-> FALSE, results |-> <<>>]
OrganicLists ==
    {NoOrganic} \cup [present : {TRUE},
                      results : SeqsUpTo(OrganicMarkers, MaxOrganic)]
EmptyPayload ==
    [aiOverview |-> FALSE, answerBox |-> NoAnswerBox,
     knowledgeGraph |-> NoKnowledgeGraph, organic |-> NoOrganic]
Payloads ==
    [aiOverview : BOOLEAN, answerBox : AnswerBoxes,
     knowledgeGraph : KnowledgeGraphs, organic : OrganicLists]

\* 'snippet' in answer_box and ('ai' in title.lower() or 'generated' in
\* snippet.lower())
AnswerBoxMatches(box) ==
    /\ box.present
    /\ box.snippet # Absent
    /\ (box.title = "ai" \/ box.snippet = "generated")

\* 'aiGenerated' in kg or 'type' in kg and 'ai' in kg['type'].lower()
KnowledgeGraphFlagged(kg) ==
    /\ kg.present
    /\ (kg.aiGenerated \/ kg.type = "ai")

\* Mutant: every organic result is inspected.
AllOrganic(list) == list

\* data['organic'][:3]
FirstOrganic(list) == SubSeq(list, 1, Min(3, Len(list)))

\* 'aiGenerated' in result or 'generatedByAI' in result or 'ai generated'
\* in result.get('snippet', '').lower(), for one of the inspected results.
OrganicFlagged(organic) ==
    /\ organic.present
    /\ \E i \in DOMAIN FirstOrganic(organic.results) :
          FirstOrganic(organic.results)[i] # "none"

\* has_aio of the serper branch: the overview, else the answer box; then,
\* while has_aio is still False, the knowledge graph and the organic
\* results.
HasAio(data) ==
    LET first == IF data.aiOverview THEN TRUE
                 ELSE AnswerBoxMatches(data.answerBox)
        second == IF ~first THEN KnowledgeGraphFlagged(data.knowledgeGraph)
                  ELSE first
    IN  IF ~second THEN OrganicFlagged(data.organic) ELSE second

\* No response is being parsed.
NoParse == [pc |-> "idle", data |-> EmptyPayload, result |-> NoResult]

\* _parse_serp_response(keyword, data) returns its SERPResult.
ParseSerpResponse ==
    /\ parse.pc = "called"
    /\ parse' = [parse EXCEPT !.pc = "returned",
                              !.result = SERPResult(HasAio(parse.data), FALSE)]
    /\ UNCHANGED <<serp_vars, pipe_vars, expansion, analyzer, preview>>

ParseInit ==
    parse \in {[NoParse EXCEPT !.pc = "called", !.data = d] : d \in Payloads}

ParseNext == ParseSerpResponse

\* ======================================================== seed truncation
\* self.keyword_limit = ads_config.get('keyword_limit', 20); every
\* configuration of the repository sets 20.
KeywordLimit == 20

\* The seed lists: n keywords, the i-th of which is i * k modulo 5.
SeedLists ==
    {[i \in 1 .. n |-> (i * k) % 5] : n \in 0 .. MaxSeeds, k \in 1 .. 3}

\* Mutant: the list is passed whole.
WholeList(list, n) == list

\* list[:n] for n >= 0
Truncate(list, n) == SubSeq(list, 1, Min(n, Len(list)))

\* No expansion is going on.
NoExpansion ==
    [pc |-> "idle", path |-> "none", seed_keywords |-> <<>>,
     argument |-> <<>>, limited_seeds |-> <<>>]

\* expand_keywords (the Celery task) calls
\* generate_keyword_ideas(seed_keywords=seed_keywords[:20], ...).
TaskCallsHandler ==
    /\ expansion.pc = "start"
    /\ expansion.path = "task"
    /\ Len(expansion.seed_keywords) > 0
    /\ expansion' = [expansion EXCEPT
                        !.pc = "handler",
                        !.argument = Truncate(expansion.seed_keywords, 20)]
    /\ UNCHANGED <<serp_vars, pipe_vars, parse, analyzer, preview>>

\* AIOAnalyzer.expand_keywords calls
\* generate_keyword_ideas(seed_keywords=seed_keywords).
AnalyzerCallsHandler ==
    /\ expansion.pc = "start"
    /\ expansion.path = "analyzer"
    /\ Len(expansion.seed_keywords) > 0
    /\ expansion' = [expansion EXCEPT !.pc = "handler",
                                      !.argument = expansion.seed_keywords]
    /\ UNCHANGED <<serp_vars, pipe_vars, parse, analyzer, preview>>

\* Either caller returns before the handler when it has no seed keywords.
NoSeeds ==
    /\ expansion.pc = "start"
    /\ Len(expansion.seed_keywords) = 0
    /\ expansion' = [expansion EXCEPT !.pc = "returned"]
    /\ UNCHANGED <<serp_vars, pipe_vars, parse, analyzer, preview>>

\* generate_keyword_ideas builds its request:
\* limited_seeds = seed_keywords[:self.keyword_limit] go to the vendor.
HandlerRequests ==
    /\ expansion.pc = "handler"
    /\ expansion' = [expansion EXCEPT
                        !.pc = "requested",
                        !.limited_seeds =
                            Truncate(expansion.argument, KeywordLimit)]
    /\ UNCHANGED <<serp_vars, pipe_vars, parse, analyzer, preview>>

SeedsInit ==
    expansion \in {[NoExpansion EXCEPT !.pc = "start", !.path = p,
                                       !.seed_keywords = l] :
                      p \in {"task", "analyzer"}, l \in SeedLists}

SeedsNext ==
    \/ TaskCallsHandler
    \/ AnalyzerCallsHandler
    \/ NoSeeds
    \/ HandlerRequests

\* ============================================================ AIOAnalyzer
\* What the collaborators of the command-line analyzer can answer.
AnalyzerCollaborators ==
    [gsc |-> SUBSET Keywords, ads |-> SUBSET Keywords,
     triggers |-> SUBSET Keywords, errors |-> SUBSET Keywords,
     faults |-> VendorFaults]

\* The dict run_full_analysis returns: {"status": "failed", ...} or the
\* summary of a completed analysis.
NoSummary ==
    [status |-> "none", seed_keywords_count |-> 0,
     expanded_keywords_count |-> 0, aio_triggers_count |-> 0,
     report_path |-> FALSE]
FailedSummary == [NoSummary EXCEPT !.status = "failed"]

\* No analysis is going on.  call is the way the latest handler call
\* ended; gsc_data, expanded_data are the DataFrames' keywords;
\* triggers_aio is the column validation adds, when it adds it.
NoAnalysis ==
    [pc |-> "idle", call |-> NoCall, gsc_data |-> {}, expanded_data |-> {},
     has_triggers_aio |-> FALSE, triggers_aio |-> {}, summary |-> NoSummary]

\* "if not self.validate_configuration(): raise ValueError(...)"
AnalyzerInvalid ==
    /\ analyzer.pc = "start"
    /\ analyzer' = [analyzer EXCEPT !.pc = "raised"]
    /\ UNCHANGED <<serp_vars, pipe_vars, parse, expansion, preview>>

\* Step 1: extract_seed_keywords returns the handler's DataFrame, or an
\* empty one when the result is empty or anything raised;
\* "if gsc_data.empty: return {"status": "failed", ...}".
AnalyzerExtract ==
    /\ analyzer.pc = "start"
    /\ \E c \in {CallRaised(kind) : kind \in world.faults}
                \cup {CallReturned(rows, {}) : rows \in world.gsc} :
          analyzer' =
             IF HandlerResult(1, c) = {}
             THEN [analyzer EXCEPT !.pc = "returned", !.call = c,
                                   !.summary = FailedSummary]
             ELSE [analyzer EXCEPT !.pc = "expand", !.call = c,
                                   !.gsc_data = HandlerResult(1, c)]
    /\ UNCHANGED <<serp_vars, pipe_vars, parse, expansion, preview>>

\* Step 2: expand_keywords on the seed keywords (there are some), the same
\* way; "if expanded_data.empty: return {"status": "failed", ...}".
AnalyzerExpand ==
    /\ analyzer.pc = "expand"
    /\ \E c \in {CallRaised(kind) : kind \in world.faults}
                \cup {CallReturned(ideas, {}) : ideas \in world.ads} :
          analyzer' =
             IF HandlerResult(2, c) = {}
             THEN [analyzer EXCEPT !.pc = "returned", !.call = c,
                                   !.summary = FailedSummary]
             ELSE [analyzer EXCEPT !.pc = "validate", !.call = c,
                                   !.expanded_data = HandlerResult(2, c)]
    /\ UNCHANGED <<serp_vars, pipe_vars, parse, expansion, preview>>

\* Step 3: validate_aio_triggers adds the column triggers_aio from the map
\* batch_validate_aio returned; when something raised the DataFrame comes
\* back without the column.
AnalyzerValidate ==
    /\ analyzer.pc = "validate"
    /\ \E c \in {CallRaised(kind) : kind \in world.faults}
                \cup {CallReturned((t \ e) \cap analyzer.expanded_data,
                                   e \cap analyzer.expanded_data) :
                         t \in world.triggers, e \in world.errors} :
          analyzer' = [analyzer EXCEPT
                          !.pc = "report", !.call = c,
                          !.has_triggers_aio = c.outcome = "returned",
                          !.triggers_aio = c.items]
    /\ UNCHANGED <<serp_vars, pipe_vars, parse, expansion, preview>>

\* Step 4: generate_comprehensive_report returns the path, or "" when the
\* generator raised; then the summary of the completed analysis.
AnalyzerReport ==
    /\ analyzer.pc = "report"
    /\ \E path \in BOOLEAN :
          analyzer' = [analyzer EXCEPT
              !.pc = "returned",
              !.summary =
                  [status |-> "completed",
                   seed_keywords_count |-> Cardinality(analyzer.gsc_data),
                   expanded_keywords_count |->
                       Cardinality(analyzer.expanded_data),
                   aio_triggers_count |->
                       IF analyzer.has_triggers_aio
                       THEN Cardinality(analyzer.triggers_aio) ELSE 0,
                   report_path |-> path]]
    /\ UNCHANGED <<serp_vars, pipe_vars, parse, expansion, preview>>

AnalyzerInit == analyzer = [NoAnalysis EXCEPT !.pc = "start"]

AnalyzerNext ==
    \/ AnalyzerInvalid
    \/ AnalyzerExtract
    \/ AnalyzerExpand
    \/ AnalyzerValidate
    \/ AnalyzerReport

\* ==================================================== preview application
\* The updates execute_analysis_pipeline makes to analysis_status, in
\* order: current_step and progress.
PipelineSteps ==
    <<"initializing", "gsc_extraction", "keyword_expansion",
      "aio_validation", "report_generation", "completed">>
PipelineProgress == <<10, 25, 50, 75, 90, 100>>

\* The places of a pipeline thread: not started, before its i-th update,
\* returned, raised.
NotStarted == 0
Returned == Len(PipelineSteps) + 1
Failed == Len(PipelineSteps) + 2
Threads == 1 .. MaxStarts

\* analysis_status as the module creates it / as start_analysis resets it.
IdleStatus == [current_step |-> "idle", progress |-> 0]
StartingStatus == [current_step |-> "starting", progress |-> 0]

\* The application as started: no request was made.
NoPreview ==
    [status |-> IdleStatus, thread |-> [t \in Threads |-> NotStarted],
     starts |-> 0]

\* A pipeline thread that is between its start and its end.
Running(t) == preview.thread[t] \in 1 .. Len(PipelineSteps)

\* POST /api/start_analysis: analysis_status is replaced by the 'starting'
\* dict and a new daemon thread is started with the pipeline.
StartAnalysis ==
    /\ preview.starts < MaxStarts
    /\ preview' = [preview EXCEPT !.status = StartingStatus,
                                  !.starts = @ + 1,
                                  !.thread[preview.starts + 1] = 1]
    /\ UNCHANGED <<serp_vars, pipe_vars, parse, expansion, analyzer>>

\* analysis_status.update({...}) of a pipeline thread, on the dict the
\* global names now; after the last update the pipeline returns.
PipelineUpdate(t) ==
    /\ Running(t)
    /\ preview' = [preview EXCEPT
                      !.status =
                          [current_step |-> PipelineSteps[preview.thread[t]],
                           progress |-> PipelineProgress[preview.thread[t]]],
                      !.thread[t] = @ + 1]
    /\ UNCHANGED <<serp_vars, pipe_vars, parse, expansion, analyzer>>

\* A step of the pipeline raises: the except branch writes 'error' with
\* progress 0 and raises.
PipelineError(t) ==
    /\ Running(t)
    /\ preview.thread[t] > 1
    /\ preview' = [preview EXCEPT
                      !.status = [current_step |-> "error", progress |-> 0],
                      !.thread[t] = Failed]
    /\ UNCHANGED <<serp_vars, pipe_vars, parse, expansion, analyzer>>

PreviewInit == preview = NoPreview

PreviewNext ==
    \/ StartAnalysis
    \/ \E t \in Threads :
          \/ PipelineUpdate(t)
          \/ PipelineError(t)

\* ========================================================= specifications
vars == <<serp_vars, pipe_vars, unit_vars>>

\* Nothing is being parsed or expanded, no analyzer and no preview
\* application runs.
UnitIdle ==
    /\ parse = NoParse
    /\ expansion = NoExpansion
    /\ analyzer = NoAnalysis
    /\ preview = NoPreview

\* The batch validation engine alone: a handler as __init__ leaves it.
InitSerp == SerpInit /\ PipeInit /\ UnitIdle

SpecSerp == InitSerp /\ [][SerpNext]_vars

\* The Celery pipeline alone: a Project as created (the SERP handler of the
\* validation stage shows as the stage's success or failure).
InitPipeline ==
    /\ PipeInit
    /\ UnitIdle
    /\ SerpInit
    /\ concurrent_requests = 1 /\ min_interval = 1
    /\ retry_attempts = 0 /\ retry_delay = 0

SpecPipeline == InitPipeline /\ [][PipeNext]_vars

\* The end-to-end scenario: 2 seed keywords and 10 more keywords.
ScenarioSeeds == {"s1", "s2"}
ScenarioKeywords ==
    ScenarioSeeds \cup
    {"k1", "k2", "k3", "k4", "k5", "k6", "k7", "k8", "k9", "k10"}

\* Search Console returns the 2 seeds, the expansion returns 10 keywords,
\* the probes find exactly 3 of the expanded keywords triggering, no probe
\* fails and no vendor call raises.
ScenarioWorlds ==
    UNION {{[gsc |-> {ScenarioSeeds}, ads |-> {ideas},
             triggers |-> {flagged}, errors |-> {{}}, faults |-> {}] :
               flagged \in {F \in SUBSET ideas : Cardinality(F) = 3}} :
           ideas \in {I \in SUBSET ScenarioKeywords : Cardinality(I) = 10}}

InitScenario ==
    /\ world \in ScenarioWorlds
    /\ FreshProject(ScenarioKeywords)
    /\ UnitIdle
    /\ SerpInit
    /\ concurrent_requests = 1 /\ min_interval = 1
    /\ retry_attempts = 0 /\ retry_delay = 0

\* A run in which no task raises and nothing is cancelled.
ScenarioNext ==
    \/ RunStart
    \/ OrchGetReturns
    \/ ReportBegin
    \/ ReportComplete
    \/ \E s \in CodeStages :
          \/ BeginStage(s)
          \/ CallCollaborator(s)
          \/ CompleteStage(s)

SpecScenario == InitScenario /\ [][ScenarioNext]_vars

\* _parse_serp_response alone, on every response of the Serper format.
InitParse ==
    /\ ParseInit
    /\ expansion = NoExpansion
    /\ analyzer = NoAnalysis
    /\ preview = NoPreview
    /\ PipeInit
    /\ SerpInit
    /\ concurrent_requests = 1 /\ min_interval = 1
    /\ retry_attempts = 0 /\ retry_delay = 0

SpecParse == InitParse /\ [][ParseNext]_vars

\* The way of a seed list to the keyword-idea request alone, from the
\* Celery task and from AIOAnalyzer.
InitSeeds ==
    /\ SeedsInit
    /\ parse = NoParse
    /\ analyzer = NoAnalysis
    /\ preview = NoPreview
    /\ PipeInit
    /\ SerpInit
    /\ concurrent_requests = 1 /\ min_interval = 1
    /\ retry_attempts = 0 /\ retry_delay = 0

SpecSeeds == InitSeeds /\ [][SeedsNext]_vars

\* AIOAnalyzer.run_full_analysis alone, with collaborators that can
\* answer every set of keywords.
InitAnalyzer ==
    /\ AnalyzerInit
    /\ parse = NoParse
    /\ expansion = NoExpansion
    /\ preview = NoPreview
    /\ world = AnalyzerCollaborators
    /\ FreshProject(Keywords)
    /\ SerpInit
    /\ concurrent_requests = 1 /\ min_interval = 1
    /\ retry_attempts = 0 /\ retry_delay = 0

SpecAnalyzer == InitAnalyzer /\ [][AnalyzerNext]_vars

\* The preview application alone.
InitPreview ==
    /\ PreviewInit
    /\ parse = NoParse
    /\ expansion = NoExpansion
    /\ analyzer = NoAnalysis
    /\ PipeInit
    /\ SerpInit
    /\ concurrent_requests = 1 /\ min_interval = 1
    /\ retry_attempts = 0 /\ retry_delay = 0

SpecPreview == InitPreview /\ [][PreviewNext]_vars

\* ================================================================ claims
Range(f) == {f[i] : i \in DOMAIN f}

RECURSIVE SumProbes(_)
SumProbes(k) == IF k = 0 THEN 0 ELSE task[k].probes + SumProbes(k - 1)

\* Probes (HTTP requests) started so far in the batch.
TotalProbes == SumProbes(MaxKeywords)

\* Position of the last occurrence of kw in the keyword list.
LastIndex(kw) ==
    CHOOSE i \in DOMAIN keywords :
        keywords[i] = kw /\ \A j \in DOMAIN keywords : keywords[j] = kw => j <= i

\* C1: rate bound.  Whenever a probe starts and a probe has started before,
\* the time since the previous probe start is at least 1/R (min_interval),
\* whatever the concurrency.
C1_RateBound ==
    [][(TotalProbes' > TotalProbes /\ TotalProbes >= 1)
          => since_probe >= min_interval]_vars

\* C2: the pacing gate is one indivisible step.  No coroutine reads the
\* pacing clock while another one has read it and not yet updated it: at
\* most one coroutine is between the read and the update of
\* _last_request_time.
C2_AtomicGate ==
    Cardinality({k \in TaskIds : task[k].pc = "rate_sleep"}) <= 1

\* C3: concurrency bound.  The keywords in flight (slot acquired, not yet
\* released) never number more than concurrent_requests, and a probe is
\* only ever running for a keyword that holds a slot.
C3_ConcurrencyBound ==
    /\ Cardinality(InFlight) <= concurrent_requests
    /\ \A k \in TaskIds : task[k].pc \in InFlightPcs => task[k].slot

C3_Witness ==
    /\ concurrent_requests = 2
    /\ Cardinality(InFlight) = 2
    /\ \E k \in TaskIds : task[k].pc = "wait_sem"
    /\ \E k \in TaskIds : task[k].pc = "request"

\* C4: completeness.  The map returned for a non-empty keyword list has
\* exactly the keywords of the list as its keys, whatever the probes did.
C4_Completeness ==
    (batch_pc = "returned" /\ keywords # <<>>)
        => DOMAIN results = Range(keywords)

C4_Witness ==
    /\ batch_pc = "returned"
    /\ Len(keywords) = 3
    /\ Cardinality(Range(keywords)) = 2
    /\ \E k \in TaskIds : task[k].result.error
    /\ \E k \in TaskIds : task[k].result.has_aio

\* C5: failure isolation.  A keyword all of whose probes were answered 429
\* ends with has_aio = FALSE and an error, no process_keyword coroutine
\* ends with an exception, and the returned map holds, for every keyword of
\* the list, the has_aio of its (last) outcome.
C5_FailureIsolation ==
    /\ \A k \in TaskIds :
          /\ task[k].result.kind # "raised"
          /\ (task[k].pc = "done" /\ task[k].probes >= 1 /\ task[k].only429)
                => /\ task[k].result.kind = "result"
                   /\ ~task[k].result.has_aio
                   /\ task[k].result.error
    /\ (batch_pc = "returned" /\ keywords # <<>>)
          => \A kw \in Range(keywords) :
                /\ kw \in DOMAIN results
                /\ results[kw] = task[LastIndex(kw)].result.has_aio

C5_Witness ==
    /\ batch_pc = "returned"
    /\ \E k, j \in TaskIds :
          /\ task[k].pc = "done" /\ task[k].only429 /\ task[k].probes = 2
          /\ task[j].pc = "done" /\ task[j].result.has_aio
          /\ keywords[k] # keywords[j]
          /\ results[keywords[j]] /\ ~results[keywords[k]]

\* C6: per-keyword retry.  A keyword is probed at most retry_attempts times
\* after its first attempt, and the delay scheduled before its k-th retry
\* is retry_delay * k.
C6_LinearBackoff ==
    \A k \in TaskIds :
        /\ task[k].probes <= retry_attempts + 1
        /\ task[k].pc = "backoff_sleep"
              => task[k].waited = retry_delay * task[k].probes

\* C7: Retry-After preference.  After a 429 that carries a Retry-After
\* hint, the delay scheduled before the keyword's next attempt is the hint
\* and nothing more.
C7_RetryAfterInstead ==
    \A k \in TaskIds :
        (task[k].hint # NoHint
            /\ task[k].pc \in {"retry_after_sleep", "backoff_sleep"})
          => task[k].waited = task[k].hint

\* C8: empty input.  A call with the empty list has returned the empty map
\* at once: no session was opened, no coroutine created, no slot taken, no
\* probe started and the pacing clock is as __init__ left it.
C8_EmptyInput ==
    (batch_pc # "idle" /\ keywords = <<>>)
        => /\ batch_pc = "returned"
           /\ results = <<>>
           /\ ~session_open
           /\ \A k \in TaskIds : task[k] = NoTask
           /\ sem_value = concurrent_requests
           /\ TotalProbes = 0
           /\ since_last_request = Sat /\ since_probe = Sat

C8_Witness == batch_pc = "returned" /\ keywords = <<>>

\* A stage task has been sent to a worker in the current run.
Dispatched(s) == celery[s].state # "none"

\* The StageTask of stage s of the current run is in a terminal status:
\* completed, cancelled, or failed with no retry to come.
Terminal(s) ==
    \/ db_task[run][s].status \in {"completed", "cancelled"}
    \/ db_task[run][s].status = "failed" /\ celery[s].state = "FAILURE"

\* C9: stage sequencing.  A stage is started only after every earlier stage
\* was started, in the order extraction, expansion, validation, reporting,
\* and only once the StageTask of the stage before it is terminal; a stage
\* that waits for a retry is not terminal.
C9_StageSequencing ==
    \A s \in Stages \ {1} :
        Dispatched(s) => Dispatched(s - 1) /\ Terminal(s - 1)

C9_Witness ==
    /\ celery[2].state = "SUCCESS"
    /\ celery[3].state = "RETRY"
    /\ celery[3].retries = 2
    /\ celery[4].state = "none"

\* C10: at most one StageTask of the Project is 'running', over all its
\* runs.
RunningTasks ==
    {rs \in Runs \X Stages : db_task[rs[1]][rs[2]].status = "running"}

C10_OneRunning == Cardinality(RunningTasks) <= 1

C10_Witness ==
    /\ run = 2
    /\ db_task[1][4].status = "failed"
    /\ db_task[2][3].status = "running"
    /\ celery[3].retries >= 1

\* C11: a stage whose retry budget is exhausted fails the run.  Once a
\* stage task has failed for good no later stage is sent or 'running', and
\* when the orchestrator has raised, the StageTask of the stage it waited
\* for and the Project are both 'failed' and the Project's error_message
\* is that stage's error.
C11_FailureStopsPipeline ==
    /\ \A s \in Stages :
          celery[s].state = "FAILURE"
             => /\ celery[s].retries = MaxRetries(s)
                /\ db_task[run][s].status = "failed"
                /\ \A s2 \in Stages :
                      s2 > s => /\ celery[s2].state = "none"
                                /\ db_task[run][s2].status \in {"pending", "cancelled"}
    /\ orch.pc = "raised"
          => /\ celery[orch.stage].state = "FAILURE"
             /\ db_task[run][orch.stage].status = "failed"
             /\ db_project.status = "failed"
             /\ db_project.error_message.stage = orch.stage

C11_Witness ==
    /\ orch.pc = "raised"
    /\ orch.stage = 3
    /\ celery[3].retries = 2
    /\ db_project.status = "failed"
    /\ db_task[run][4].status = "pending"

C13_StageBackoff ==
    \A s \in CodeStages :
        celery[s].state = "RETRY"
           => celery[s].countdown =
                 (IF s = 3 THEN 120 ELSE 60) * celery[s].retries

C13_Witness ==
    /\ run = 1
    /\ db_task[1][1].status = "completed"
    /\ celery[2].state = "RETRY"
    /\ celery[2].retries = 3
    /\ celery[2].countdown = 180

\* C14: empty-result short-circuit.  In the first run of a Project no
\* KeywordData row exists after extraction exactly when extraction returned
\* zero rows.  Then the extraction StageTask is 'completed', stages M2, M3
\* and M4 are never sent (their StageTasks stay 'pending' unless cancelled),
\* and the run ends with the Project 'completed' and total_keywords = 0.
C14_EmptyShortCircuit ==
    (run = 1 /\ celery[1].state = "SUCCESS" /\ Rows(db_keyword) = {})
       => /\ db_task[1][1].status = "completed"
          /\ \A s \in Stages \ {1} :
                /\ celery[s].state = "none"
                /\ db_task[1][s].status \in {"pending", "cancelled"}
          /\ orch.pc # "waiting"
                => /\ db_project.status = "completed"
                   /\ db_project.total_keywords = 0

\* The counters of the Project that the stage tasks advance.
Statistics(p) == <<p.completed_steps, p.total_keywords, p.aio_keywords>>

\* C15: the orchestrator's writes keep what the stages stored.  The step
\* that ends a run in which all four stages completed leaves the stored
\* Project 'completed' with the completed_steps, total_keywords and
\* aio_keywords it had, which are the values the stages wrote.
C15_StatisticsKept ==
    [][(orch.pc = "waiting" /\ orch'.pc = "returned")
          => /\ db_project'.status = "completed"
             /\ Statistics(db_project') = Statistics(db_project)]_vars

\* C16: validation fails for good.  The step in which the orchestrator
\* gives up on the validation stage finds that stage retried exactly 2
\* times, leaves the Project 'failed' and leaves completed_steps at the
\* value it had before the validation stage started (a failing validation
\* task does not write it).
C16_FailedValidationKeepsSteps ==
    [][(orch.pc = "waiting" /\ orch'.pc = "raised" /\ orch.stage = 3)
          => /\ celery[3].retries = 2
             /\ db_project'.status = "failed"
             /\ db_project'.completed_steps = db_project.completed_steps]_vars

\* C17: completed_steps <= total_steps (4) in every state of every
\* sequence of runs of the Project, re-runs of a failed Project included.
C17_StepsBounded == db_project.completed_steps <= 4

C17_Witness ==
    /\ run = 2
    /\ db_task[1][3].status = "failed"
    /\ db_task[1][1].status = "completed"
    /\ db_task[1][2].status = "completed"
    /\ db_task[2][4].status = "completed"
    /\ db_keyword["a"].source_type = "gsc"
    /\ db_project.completed_steps = 4

\* C18: Project status only moves forward.  No step takes a Project that
\* is 'completed' or 'cancelled' back to 'created' or 'running'.
C18_StatusForward ==
    [][db_project.status \in {"completed", "cancelled"}
          => db_project'.status \notin {"created", "running"}]_vars

\* The StageTask of stage s of run r may go from status a to status b:
\* created as 'pending', pending -> running, running -> completed | failed,
\* failed -> running for a retry that Celery has scheduled, pending or
\* running -> cancelled.
StageTaskStep(r, s, a, b) ==
    \/ a = "absent" /\ b = "pending"
    \/ a = "pending" /\ b \in {"running", "cancelled"}
    \/ a = "running" /\ b \in {"completed", "failed", "cancelled"}
    \/ a = "failed" /\ b = "running" /\ r = run /\ celery[s].state = "RETRY"

\* C19: StageTask state machine.  Every change of a StageTask's status is
\* one of pending -> running -> {completed | failed}, failed -> running
\* for a retry within the budget, or a cancellation of a pending or
\* running task; so a StageTask that is 'completed', 'cancelled', or
\* 'failed' with its budget exhausted never changes status again.
C19_StageTaskMachine ==
    [][\A r \in Runs, s \in Stages :
          db_task'[r][s].status # db_task[r][s].status
             => StageTaskStep(r, s, db_task[r][s].status, db_task'[r][s].status)]_vars

\* C20: cooperative cancellation.  Once the Project is 'cancelled' it
\* stays 'cancelled', and no stage that was not yet sent is sent.
C20_CancelledStays ==
    [][db_project.status = "cancelled"
          => /\ db_project'.status = "cancelled"
             /\ \A s \in Stages :
                   celery[s].state = "none" => celery'[s].state = "none"]_vars

\* The keywords whose validation outcome is stored.
Verified(db) == {kw \in DOMAIN db : db[kw].aio_verified = "true"}

\* C21: write-once validation outcome.  Once a keyword's outcome is stored
\* (aio_verified true, aio_triggers true or false), no step of extraction,
\* expansion or validation, a retry or an interrupted attempt included,
\* changes its aio_verified or aio_triggers.
C21_WriteOnce ==
    [][\A kw \in Verified(db_keyword) :
          /\ db_keyword'[kw].aio_verified = db_keyword[kw].aio_verified
          /\ db_keyword'[kw].aio_triggers = db_keyword[kw].aio_triggers]_vars

\* A validation that completed with one keyword left to verify while two
\* outcomes are stored: the other one was stored before, by an interrupted
\* attempt or an earlier run.
C21_Witness ==
    /\ run >= 1
    /\ db_task[run][3].status = "completed"
    /\ db_task[run][3].result_count = 1
    /\ Cardinality(Verified(db_keyword)) = 2

\* C22: extraction idempotence.  An extraction whose result holds only
\* keywords that are already stored creates no KeywordData row (its
\* keywords_created is 0) and leaves every stored row, its validation
\* outcome included, as it was; rows are kept one per keyword.
C22_ExtractionIdempotent ==
    [][(/\ celery[1].state = "STARTED"
        /\ celery'[1].state = "SUCCESS"
        /\ call[1].outcome = "returned"
        /\ call[1].items \subseteq Rows(db_keyword))
          => /\ db_keyword' = db_keyword
             /\ db_task'[run][1].result_count = 0]_vars

\* The second run's extraction got the keyword the first run stored and
\* validated, and created nothing.
C22_Witness ==
    /\ run = 2
    /\ db_task[1][1].result_count = 1
    /\ db_task[2][1].status = "completed"
    /\ db_task[2][1].result_data.total = 1
    /\ db_task[2][1].result_count = 0
    /\ "a" \in Verified(db_keyword)

\* The task of stage s ends an attempt in this step by raising.
StageRaises(s) ==
    /\ celery[s].state = "STARTED"
    /\ celery'[s].state \in {"RETRY", "FAILURE"}

\* C26: when the vendor call of extraction or expansion raises, the
\* attempt ends with the StageTask 'failed' and the task retried or failed
\* for good; it does not end with the StageTask 'completed'.
C26_VendorFailureFailsStage ==
    [][\A s \in {1, 2} :
          (/\ celery[s].state = "STARTED"
           /\ celery'[s].state # "STARTED"
           /\ call[s].outcome = "raised")
             => /\ StageRaises(s)
                /\ db_task'[run][s].status = "failed"]_vars

\* The error kinds the retry policy treats as fatal.
FatalKinds == {"InvalidInput", "UpstreamAuthFailure"}

\* C27: a stage task that raises InvalidInput or UpstreamAuthFailure is
\* not retried: it fails for good on that attempt.
C27_FatalNotRetried ==
    [][\A s \in Stages :
          (/\ StageRaises(s)
           /\ db_task'[run][s].error_message.kind \in FatalKinds)
             => celery'[s].state = "FAILURE"]_vars

\* C28: once batch_validate_aio has returned, the validation attempt ends
\* 'completed', with every keyword it was given counted as verified,
\* however many probes failed; it fails only when it is interrupted.
C28_ProbeErrorsDoNotFail ==
    [][(/\ celery[3].state = "STARTED"
        /\ celery'[3].state # "STARTED"
        /\ call[3].outcome = "returned")
          => \/ /\ celery'[3].state = "SUCCESS"
                /\ db_task'[run][3].status = "completed"
                /\ db_task'[run][3].result_count =
                      Cardinality(KeywordsToVerify(db_keyword))
             \/ /\ StageRaises(3)
                /\ db_task'[run][3].error_message.kind = "Interrupted"]_vars

\* A validation whose batch has returned with the probe of every one of
\* its two keywords failed.
C28_Witness ==
    /\ run >= 1
    /\ celery[3].state = "STARTED"
    /\ call[3].outcome = "returned"
    /\ call[3].errors = KeywordsToVerify(db_keyword)
    /\ Cardinality(call[3].errors) = 2

\* C29: when a stage task fails for good, its StageTask's result_count is
\* the number of rows its last attempt stored before the exception; when
\* the orchestrator then fails the Project, the Project gets the error
\* message of that StageTask.
C29_FailedKeepsCount ==
    [][/\ \A s \in Stages :
             (StageRaises(s) /\ celery'[s].state = "FAILURE")
                => db_task'[run][s].result_count =
                      Cardinality({kw \in DOMAIN db_keyword :
                                      db_keyword'[kw] # db_keyword[kw]})
       /\ (orch.pc = "waiting" /\ orch'.pc = "raised")
             => /\ db_project'.status = "failed"
                /\ db_project'.error_message =
                      db_task[run][orch.stage].error_message]_vars

\* The percentage pct is count * 100 / total, or 0 when total is 0.
IsPercentage(pct, count, total) ==
    IF total > 0 THEN pct[1] * total = count * 100 * pct[2]
    ELSE pct[1] = 0

\* C24: aggregation.  In the summary of every validation StageTask and in
\* the Project's statistics the triggered count is at most the total, and
\* the percentage is count * 100 / total when the total is positive and 0
\* when it is 0.
C24_Aggregation ==
    /\ \A r \in Runs :
          LET d == db_task[r][3].result_data
          IN  /\ d.aio <= d.total
              /\ IsPercentage(d.aio_percentage, d.aio, d.total)
    /\ db_project.aio_keywords <= db_project.total_keywords
    /\ IsPercentage(ProjectPercentage(db_project), db_project.aio_keywords,
                    db_project.total_keywords)

\* C23: end-to-end scenario.  With 2 seed keywords, an expansion that
\* returns 10 keywords and probes that flag exactly 3 of the expanded
\* keywords, the summary of the completed validation is total_verified =
\* 10, aio_triggers = 3, aio_percentage = 30.
C23_Scenario ==
    (run = 1 /\ db_task[1][3].status = "completed")
       => LET d == db_task[1][3].result_data
          IN  /\ d.total = 10
              /\ d.aio = 3
              /\ d.aio_percentage[1] = 30 * d.aio_percentage[2]

\* C25: detection precedence.  For a parsed Serper response has_aio is
\* true exactly when the overview key is present, or the answer box
\* matches the heuristic, or the knowledge graph is flagged, or one of the
\* first 3 organic results carries a generated-content marker; a marker
\* on the 4th or a later organic result alone does not trigger.
C25_DetectionPrecedence ==
    parse.pc = "returned"
       => LET d == parse.data
          IN  /\ parse.result.error = FALSE
              /\ parse.result.has_aio
                    = \/ d.aiOverview
                      \/ /\ d.answerBox.present
                         /\ d.answerBox.snippet # Absent
                         /\ (d.answerBox.title = "ai"
                             \/ d.answerBox.snippet = "generated")
                      \/ /\ d.knowledgeGraph.present
                         /\ (d.knowledgeGraph.aiGenerated
                             \/ d.knowledgeGraph.type = "ai")
                      \/ /\ d.organic.present
                         /\ \E i \in 1 .. 3 :
                               /\ i <= Len(d.organic.results)
                               /\ d.organic.results[i] # "none"

\* A parsed response whose only marker is on its 4th organic result: not
\* triggered.
C25_Witness ==
    /\ parse.pc = "returned"
    /\ parse.data.aiOverview = FALSE
    /\ parse.data.answerBox = NoAnswerBox
    /\ parse.data.knowledgeGraph = NoKnowledgeGraph
    /\ parse.data.organic.results = <<"none", "none", "none", "aiGenerated">>
    /\ parse.result.has_aio = FALSE

\* C30: seed truncation.  The seeds that go into the keyword-idea request
\* are at most 20 and are the first ones of the seed list, in order.
C30_SeedTruncation ==
    expansion.pc = "requested"
       => /\ Len(expansion.limited_seeds) <= 20
          /\ Len(expansion.limited_seeds) <= Len(expansion.seed_keywords)
          /\ \A i \in DOMAIN expansion.limited_seeds :
                expansion.limited_seeds[i] = expansion.seed_keywords[i]
          /\ Len(expansion.seed_keywords) <= 20
                => expansion.limited_seeds = expansion.seed_keywords

\* A list of 22 seeds of which 20 went into the request.
C30_Witness ==
    /\ expansion.pc = "requested"
    /\ Len(expansion.seed_keywords) = 22
    /\ Len(expansion.limited_seeds) = 20

\* C31: in run_full_analysis an empty result of extraction or of expansion
\* (the handler's call returned, with no rows) is no error: the summary
\* returned does not have the status 'failed'.
C31_EmptyIsNotFailed ==
    (/\ analyzer.pc = "returned"
     /\ analyzer.call.outcome = "returned"
     /\ analyzer.call.items = {}
     /\ analyzer.expanded_data = {})
        => analyzer.summary.status # "failed"

\* C32: every probe is paced.  A step in which a keyword's probe starts
\* (first attempt or retry) is that keyword's own pass through
\* _rate_limit_delay: the coroutine comes from the gate (it was admitted
\* with no wait due, or its pacing sleep has ended).
C32_EveryProbePaced ==
    [][\A k \in TaskIds :
          task'[k].probes > task[k].probes
              => task[k].pc \in {"wait_sem", "rate_sleep"}]_vars

\* C33: a non-transient response (401, 403, another 4xx than 429) is not
\* retried: a keyword whose latest response was such a rejection has its
\* outcome, an error, and waits for no further attempt.
C33_RejectionNotRetried ==
    \A k \in TaskIds :
        task[k].rejected
            => /\ task[k].pc = "done"
               /\ task[k].result = SERPResult(FALSE, TRUE)

\* C34: a keyword never has more than retry_attempts probes (first attempt
\* and retries together); with retry_attempts = 0 it has none, its outcome
\* is an error with has_aio = FALSE, and the returned map has it as False.
C34_ProbesBounded ==
    /\ \A k \in TaskIds :
          /\ task[k].probes <= retry_attempts
          /\ (retry_attempts = 0 /\ task[k].pc = "done")
                => /\ task[k].probes = 0
                   /\ task[k].result = SERPResult(FALSE, TRUE)
    /\ (retry_attempts = 0 /\ batch_pc = "returned")
          => \A kw \in Range(keywords) : kw \in DOMAIN results /\ ~results[kw]

C34_Witness ==
    /\ retry_attempts = 0
    /\ batch_pc = "returned"
    /\ Len(keywords) = 3
    /\ TotalProbes = 0
    /\ \A k \in TaskIds : task[k].result = SERPResult(FALSE, TRUE)

\* C35: slot accounting.  A keyword holds a slot exactly from its
\* admission, before its pacing wait, until its outcome is produced, over
\* every probe, Retry-After wait and backoff sleep; a slot is held by
\* nobody else, so free and held slots always add up to
\* concurrent_requests (no slot is given back twice or kept on an exit
\* path: success, parse error, attempts used up); and once
\* batch_validate_aio has returned every slot is free.
C35_SlotAccounting ==
    /\ sem_value >= 0
    /\ sem_value + Cardinality(InFlight) = concurrent_requests
    /\ \A k \in TaskIds : task[k].slot <=> task[k].pc \in InFlightPcs
    /\ batch_pc = "returned"
          => /\ sem_value = concurrent_requests
             /\ InFlight = {}

C35_Witness ==
    /\ batch_pc = "returned"
    /\ retry_attempts = 2
    /\ concurrent_requests = 2
    /\ sem_value = 2
    /\ \E i, j, k \in TaskIds :
          /\ task[i].result = SERPResult(TRUE, FALSE)
          /\ task[j].result = SERPResult(FALSE, TRUE) /\ task[j].probes = 1
          /\ task[k].result = SERPResult(FALSE, TRUE) /\ task[k].probes = 2
             /\ task[k].rejected

\* The scheduling of the event loop: a coroutine that can be resumed is
\* resumed, time passes while coroutines sleep, every probe is answered or
\* times out, and gather returns once every coroutine has ended.
Fairness ==
    /\ WF_vars(Tick)
    /\ WF_vars(BatchReturn)
    /\ \A k \in TaskIds :
          /\ WF_vars(Acquire(k))
          /\ WF_vars(RateWake(k))
          /\ WF_vars(RetryAfterWake(k))
          /\ WF_vars(BackoffWake(k))
          /\ WF_vars(ResponseOk(k) \/ Response429(k) \/ ResponseFailure(k))

\* The batch validation engine under this scheduling.
SpecSerpFair == InitSerp /\ [][FairNext]_vars /\ Fairness

\* C36: termination.  Every call of batch_validate_aio returns, for every
\* keyword list and configuration, provided each probe ends: no keyword
\* waits forever for a slot or at the pacing gate.
C36_Termination == (batch_pc = "gathering") ~> (batch_pc = "returned")

C36_Witness ==
    /\ batch_pc = "returned"
    /\ concurrent_requests = 1
    /\ min_interval = 2
    /\ Len(keywords) = MaxFairKeywords
    /\ \A k \in DOMAIN keywords : task[k].probes = 2 /\ task[k].only429

\* C37: duplicate keywords.  Every occurrence of a keyword in the list has
\* its own coroutine and its own probes (nothing is de-duplicated), and the
\* map returned has, for each keyword, the has_aio of its last occurrence
\* in the list, in whatever order the occurrences completed.
C37_LastOccurrenceWins ==
    (batch_pc = "returned" /\ keywords # <<>>)
        => /\ \A i \in DOMAIN keywords :
                 /\ task[i].pc = "done"
                 /\ task[i].order \in 1 .. Len(keywords)
                 /\ retry_attempts >= 1 => task[i].probes >= 1
           /\ \A i, j \in DOMAIN keywords :
                 i # j => task[i].order # task[j].order
           /\ \A i \in DOMAIN keywords :
                 (\A j \in DOMAIN keywords : j > i => keywords[j] # keywords[i])
                    => results[keywords[i]] = task[i].result.has_aio

C37_Witness ==
    /\ batch_pc = "returned"
    /\ keywords = <<"a", "b", "a">>
    /\ task[1].result = SERPResult(TRUE, FALSE)
    /\ task[3].result = SERPResult(FALSE, FALSE)
    /\ task[3].order < task[1].order
    /\ ~results["a"]

\* C38: a failed probe is stored as a negative.  When the validation task
\* completes, every keyword whose probe failed is stored as verified with
\* aio_triggers false, and whenever a row of such a keyword is written it
\* is written so; a keyword that is stored as verified is in no later
\* batch of the Project and its row never changes again.
C38_FailedProbeStoredNegative ==
    [][/\ \A kw \in DOMAIN db_keyword :
             /\ (kw \in call[3].errors
                   /\ (db_keyword'[kw] # db_keyword[kw]
                       \/ (celery[3].state = "STARTED"
                           /\ celery'[3].state = "SUCCESS")))
                   => /\ db_keyword'[kw].aio_verified = "true"
                      /\ db_keyword'[kw].aio_triggers = "false"
             /\ db_keyword[kw].aio_verified = "true"
                   => db_keyword'[kw] = db_keyword[kw]
       /\ (call'[3] # call[3] /\ call'[3].outcome = "returned")
             => \A kw \in call'[3].items \cup call'[3].errors :
                   db_keyword[kw].aio_verified = "null"]_vars

C38_Witness ==
    /\ run = 2
    /\ db_task[1][3].status = "completed"
    /\ db_task[1][3].result_data.total = 1
    /\ db_task[1][3].result_data.aio = 0
    /\ db_keyword["a"].aio_verified = "true"
    /\ db_keyword["a"].aio_triggers = "false"
    /\ db_keyword["b"].aio_verified = "null"
    /\ call[3].outcome = "returned"
    /\ call[3].items = {"b"}

\* C39: one pipeline at a time writes analysis_status.  While a pipeline
\* thread runs, the progress reported never goes down, except to 0 with
\* the step 'error'; a start_analysis request made meanwhile changes
\* nothing of it.
C39_ProgressMonotonic ==
    [][(\E t \in Threads : Running(t))
          => \/ preview'.status.progress >= preview.status.progress
             \/ preview'.status.current_step = "error"]_vars

====
